---- MODULE Spec2Model ----
(***************************************************************************)
(* The LasZip VLR record data of laz-rs (src/laszip/vlr.rs): the item      *)
(* types and their wire codes, LazItem, CompressorType, LazVlr with its    *)
(* byte layout (read_from / write_to), LazItemRecordBuilder and            *)
(* LazVlrBuilder.                                                          *)
(*                                                                         *)
(* Number representation.  TLC's integers are 32 bits wide, so a u32 is    *)
(* held as its two 16-bit limbs <<lo, hi>> and an i64 as its four 16-bit   *)
(* limbs (two's complement bit pattern), least significant first.  A u8    *)
(* and a u16 are plain naturals.                                           *)
(*                                                                         *)
(* Vec representation.  A Vec<T> is held run-length encoded, as a sequence *)
(* of runs [x |-> element, n |-> repetitions] with n >= 1 and no two       *)
(* adjacent runs of the same element, so that a vector of 65536 items is a *)
(* small value.  Byte buffers are plain sequences of 0..255.               *)
(***************************************************************************)
EXTENDS Integers, Sequences, FiniteSets, TLC

VARIABLES
    src,      \* the byte source handed to LazVlr::read_from
    rb,       \* LazItemRecordBuilder.items : Vec<LazItemType>
    items,    \* the Vec<LazItem> the caller holds (Option / Result)
    builder,  \* the LazVlrBuilder the caller holds (Option / Result)
    hist,     \* the caller's last chunk-size argument and last request for items
    vlr,      \* the outcome of the last LazVlr constructor
    origin,   \* which constructor produced vlr
    dst,      \* the bytes LazVlr::write_to wrote (Option)
    back,     \* LazVlr::read_from of the bytes write_to wrote (Option)
    obs       \* the last accessor call and what it returned (Option)

vars == <<src, rb, items, builder, hist, vlr, origin, dst, back, obs>>

-----------------------------------------------------------------------------
(* Bounds of the model *)

\* most item records in an input buffer, and most items a caller pushes
MaxItems == 2

-----------------------------------------------------------------------------
(* Option, Result and panics *)

None == [tag |-> "None"]
Some(v) == [tag |-> "Some", v |-> v]
Ok(v) == [tag |-> "Ok", v |-> v]
Err(e) == [tag |-> "Err", e |-> e]
Panic(msg) == [tag |-> "Panic", msg |-> msg]

IoError == [kind |-> "IoError"]
UnknownLazItem(code) == [kind |-> "UnknownLazItem", code |-> code]
UnknownCompressorType(code) == [kind |-> "UnknownCompressorType", code |-> code]
UnsupportedPointFormat(id) == [kind |-> "UnsupportedPointFormat", id |-> id]

-----------------------------------------------------------------------------
(* Integer widths *)

U8Mod == 256
U16Mod == 65536
U16Max == 65535

\* usize/u64 n < 2^31 `as u32`
AsU32(n) == <<n % U16Mod, n \div U16Mod>>
\* u32::MAX
U32Max == <<U16Max, U16Max>>
\* the i64 -1
I64MinusOne == <<U16Max, U16Max, U16Max, U16Max>>

-----------------------------------------------------------------------------
(* Vec<T>, run-length encoded *)

VecNew == << >>

RECURSIVE VecLen(_)
VecLen(v) == IF v = << >> THEN 0 ELSE v[1].n + VecLen(Tail(v))

VecIsEmpty(v) == v = << >>

VecFirst(v) == v[1].x

VecPush(v, x) ==
    IF v /= << >> /\ v[Len(v)].x = x
    THEN [v EXCEPT ![Len(v)].n = @ + 1]
    ELSE Append(v, [x |-> x, n |-> 1])

\* v[i], 1 <= i <= VecLen(v)
RECURSIVE VecAt(_, _)
VecAt(v, i) == IF i <= v[1].n THEN v[1].x ELSE VecAt(Tail(v), i - v[1].n)

\* the set of elements of v
VecElems(v) == {v[i].x : i \in DOMAIN v}

\* the run-length encoding of the plain sequence s
RECURSIVE RunsFrom(_, _, _)
RunsFrom(s, starts, from) ==
    IF from > Len(s) THEN << >>
    ELSE LET later == {i \in starts : i > from}
             next == IF later = {} THEN Len(s) + 1
                     ELSE CHOOSE i \in later : \A j \in later : i <= j
         IN  <<[x |-> s[from], n |-> next - from]>> \o RunsFrom(s, starts, next)

VecFromSeq(s) ==
    RunsFrom(s, {i \in 2..Len(s) : s[i] /= s[i - 1]}, 1)

-----------------------------------------------------------------------------
(* Byte sources and sinks (byteorder, LittleEndian) *)

\* whether n bytes are left at position pos (1-based) of buf
Avail(buf, pos, n) == pos + n - 1 <= Len(buf)

read_u8(buf, pos) == buf[pos]
read_u16(buf, pos) == buf[pos] + U8Mod * buf[pos + 1]
read_u32(buf, pos) == <<read_u16(buf, pos), read_u16(buf, pos + 2)>>
read_i64(buf, pos) ==
    <<read_u16(buf, pos), read_u16(buf, pos + 2),
      read_u16(buf, pos + 4), read_u16(buf, pos + 6)>>

write_u8(n) == <<n>>
write_u16(n) == <<n % U8Mod, n \div U8Mod>>
write_u32(w) == write_u16(w[1]) \o write_u16(w[2])
write_i64(w) == write_u16(w[1]) \o write_u16(w[2]) \o write_u16(w[3]) \o write_u16(w[4])

-----------------------------------------------------------------------------
(* Version *)

Version_default == [major |-> 2, minor |-> 2, revision |-> 0]

Version_read_from(buf, pos) ==
    [major |-> read_u8(buf, pos),
     minor |-> read_u8(buf, pos + 1),
     revision |-> read_u16(buf, pos + 2)]

Version_write_to(self) ==
    write_u8(self.major) \o write_u8(self.minor) \o write_u16(self.revision)

-----------------------------------------------------------------------------
(* LazItemType *)

\* sizes of the point layouts of crate::las, in bytes
Point0_SIZE == 20
Point6_SIZE == 30
RGB_SIZE == 6
Nir_SIZE == 2
\* std::mem::size_of::<f64>()
F64_SIZE == 8

Byte(size) == [kind |-> "Byte", size |-> size]
Point10 == [kind |-> "Point10"]
GpsTime == [kind |-> "GpsTime"]
RGB12 == [kind |-> "RGB12"]
Point14 == [kind |-> "Point14"]
RGB14 == [kind |-> "RGB14"]
RGBNIR14 == [kind |-> "RGBNIR14"]
Byte14(size) == [kind |-> "Byte14", size |-> size]

\* Option<LazItemType>
LazItemType_from_u16(item_type, size) ==
    CASE item_type = 0 -> Some(Byte(size))
      [] item_type = 6 -> Some(Point10)
      [] item_type = 7 -> Some(GpsTime)
      [] item_type = 8 -> Some(RGB12)
      [] item_type = 10 -> Some(Point14)
      [] item_type = 11 -> Some(RGB14)
      [] item_type = 12 -> Some(RGBNIR14)
      [] item_type = 14 -> Some(Byte14(size))
      [] OTHER -> None

LazItemType_size(self) ==
    CASE self.kind = "Byte" -> self.size
      [] self.kind = "Point10" -> Point0_SIZE % U16Mod
      [] self.kind = "GpsTime" -> F64_SIZE % U16Mod
      [] self.kind = "RGB12" -> RGB_SIZE % U16Mod
      [] self.kind = "Point14" -> Point6_SIZE % U16Mod
      [] self.kind = "RGB14" -> RGB_SIZE % U16Mod
      [] self.kind = "RGBNIR14" -> (RGB_SIZE + Nir_SIZE) % U16Mod
      [] self.kind = "Byte14" -> self.size

LazItemType_default_version(self) ==
    CASE self.kind = "Byte" -> 2
      [] self.kind = "Point10" -> 2
      [] self.kind = "GpsTime" -> 2
      [] self.kind = "RGB12" -> 2
      [] self.kind = "Point14" -> 3
      [] self.kind = "RGB14" -> 3
      [] self.kind = "RGBNIR14" -> 3
      [] self.kind = "Byte14" -> 3

\* impl From<LazItemType> for u16
LazItemType_into_u16(t) ==
    CASE t.kind = "Byte" -> 0
      [] t.kind = "Point10" -> 6
      [] t.kind = "GpsTime" -> 7
      [] t.kind = "RGB12" -> 8
      [] t.kind = "Point14" -> 10
      [] t.kind = "RGB14" -> 11
      [] t.kind = "RGBNIR14" -> 12
      [] t.kind = "Byte14" -> 14

-----------------------------------------------------------------------------
(* LazItem *)

LazItem_new(item_type, version) ==
    [item_type |-> item_type,
     size |-> LazItemType_size(item_type),
     version |-> version]

\* LazItem::read_from as it would be with the size taken from the item type
\* (LazItem::new) instead of from the record
LazItem_read_from_inherent_size(buf, pos) ==
    IF ~Avail(buf, pos, 2) THEN Err(IoError)
    ELSE IF ~Avail(buf, pos + 2, 2) THEN Err(IoError)
    ELSE LET item_type == read_u16(buf, pos)
             size == read_u16(buf, pos + 2)
             t == LazItemType_from_u16(item_type, size)
         IN  IF t = None THEN Err(UnknownLazItem(item_type))
             ELSE IF ~Avail(buf, pos + 4, 2) THEN Err(IoError)
             ELSE Ok(LazItem_new(t.v, read_u16(buf, pos + 4)))

\* Result<LazItem>, reading at position pos of buf
LazItem_read_from(buf, pos) ==
    IF ~Avail(buf, pos, 2) THEN Err(IoError)
    ELSE IF ~Avail(buf, pos + 2, 2) THEN Err(IoError)
    ELSE LET item_type == read_u16(buf, pos)
             size == read_u16(buf, pos + 2)
             t == LazItemType_from_u16(item_type, size)
         IN  IF t = None THEN Err(UnknownLazItem(item_type))
             ELSE IF ~Avail(buf, pos + 4, 2) THEN Err(IoError)
             ELSE Ok([item_type |-> t.v,
                      size |-> size,
                      version |-> read_u16(buf, pos + 4)])

LazItem_write_to(self) ==
    write_u16(LazItemType_into_u16(self.item_type))
        \o write_u16(self.size) \o write_u16(self.version)

\* the bytes one LazItem takes on the wire
LazItemBytes == 6

-----------------------------------------------------------------------------
(* read_laz_items_from / write_laz_items_to *)

\* Result<Vec<LazItem>>: the loop stops at the first item that fails
read_laz_items_from(buf, pos) ==
    IF ~Avail(buf, pos, 2) THEN Err(IoError)
    ELSE LET num_items == read_u16(buf, pos)
             item(k) == LazItem_read_from(buf, pos + 2 + LazItemBytes * (k - 1))
             failed == {k \in 1..num_items : item(k).tag /= "Ok"}
         IN  IF failed = {}
             THEN Ok(VecFromSeq([k \in 1..num_items |-> item(k).v]))
             ELSE item(CHOOSE k \in failed : \A j \in failed : k <= j)

\* `for item in laz_items { item.write_to(dst) }`
RECURSIVE write_each_item(_)
write_each_item(laz_items) ==
    IF laz_items = << >> THEN << >>
    ELSE LET b == LazItem_write_to(laz_items[1].x)
             n == laz_items[1].n
         IN  [i \in 1..(LazItemBytes * n) |-> b[((i - 1) % LazItemBytes) + 1]]
                 \o write_each_item(Tail(laz_items))

write_laz_items_to(laz_items) ==
    write_u16(VecLen(laz_items) % U16Mod) \o write_each_item(laz_items)

-----------------------------------------------------------------------------
(* CompressorType *)

\* CompressorType::from_u16 as it would be with a catch-all last arm
CompressorType_from_u16_catch_all(t) ==
    CASE t = 0 -> Some("None")
      [] t = 1 -> Some("PointWise")
      [] t = 2 -> Some("PointWiseChunked")
      [] OTHER -> Some("LayeredChunked")

CompressorType_from_u16(t) ==
    CASE t = 0 -> Some("None")
      [] t = 1 -> Some("PointWise")
      [] t = 2 -> Some("PointWiseChunked")
      [] t = 3 -> Some("LayeredChunked")
      [] OTHER -> None

\* `self.compressor as u16`
CompressorType_as_u16(c) ==
    CASE c = "None" -> 0
      [] c = "PointWise" -> 1
      [] c = "PointWiseChunked" -> 2
      [] c = "LayeredChunked" -> 3

CompressorType_from_item_version(item_version) ==
    CASE item_version \in {1, 2} -> Some("PointWiseChunked")
      [] item_version \in {3, 4} -> Some("LayeredChunked")
      [] OTHER -> None

-----------------------------------------------------------------------------
(* LazVlr *)

DEFAULT_CHUNK_SIZE == 50000
VARIABLE_CHUNK_SIZE == U32Max

\* LazVlr::from_laz_items as it would be deriving the compressor from the
\* last item
LazVlr_from_laz_items_last_item(its) ==
    IF VecIsEmpty(its)
    THEN Panic("Vec<LazItem> should at least have one element")
    ELSE LET last_item == its[Len(its)].x
             compressor == CompressorType_from_item_version(last_item.version)
         IN  IF compressor = None THEN Panic("Unknown laz_item version")
             ELSE Ok([compressor |-> compressor.v,
                      coder |-> 0,
                      version |-> Version_default,
                      options |-> AsU32(0),
                      chunk_size |-> AsU32(DEFAULT_CHUNK_SIZE),
                      number_of_special_evlrs |-> I64MinusOne,
                      offset_to_special_evlrs |-> I64MinusOne,
                      items |-> its])

\* LazVlr::from_laz_items as it would be falling back to
\* CompressorType::default() for an empty list
LazVlr_from_laz_items_default_on_empty(its) ==
    LET compressor == IF VecIsEmpty(its) THEN Some("PointWiseChunked")
                      ELSE CompressorType_from_item_version(VecFirst(its).version)
    IN  IF compressor = None THEN Panic("Unknown laz_item version")
        ELSE Ok([compressor |-> compressor.v,
                 coder |-> 0,
                 version |-> Version_default,
                 options |-> AsU32(0),
                 chunk_size |-> AsU32(DEFAULT_CHUNK_SIZE),
                 number_of_special_evlrs |-> I64MinusOne,
                 offset_to_special_evlrs |-> I64MinusOne,
                 items |-> its])

\* the LazVlr, or the panic of an expect()
LazVlr_from_laz_items(its) ==
    IF VecIsEmpty(its)
    THEN Panic("Vec<LazItem> should at least have one element")
    ELSE LET first_item == VecFirst(its)
             compressor == CompressorType_from_item_version(first_item.version)
         IN  IF compressor = None THEN Panic("Unknown laz_item version")
             ELSE Ok([compressor |-> compressor.v,
                      coder |-> 0,
                      version |-> Version_default,
                      options |-> AsU32(0),
                      chunk_size |-> AsU32(DEFAULT_CHUNK_SIZE),
                      number_of_special_evlrs |-> I64MinusOne,
                      offset_to_special_evlrs |-> I64MinusOne,
                      items |-> its])

\* Result<LazVlr>; the fields are read in the order of the wire layout and
\* the first read the buffer is too short for ends it with the I/O error
LazVlr_read_from(buf) ==
    IF ~Avail(buf, 1, 2) THEN Err(IoError)
    ELSE LET compressor_type == read_u16(buf, 1)
             compressor == CompressorType_from_u16(compressor_type)
         IN  IF compressor = None
             THEN Err(UnknownCompressorType(compressor_type))
             ELSE IF \E f \in {<<3, 2>>, <<5, 4>>, <<9, 4>>, <<13, 4>>,
                               <<17, 8>>, <<25, 8>>} : ~Avail(buf, f[1], f[2])
             THEN Err(IoError)
             ELSE LET its == read_laz_items_from(buf, 33)
                  IN  IF its.tag /= "Ok" THEN its
                      ELSE Ok([compressor |-> compressor.v,
                               coder |-> read_u16(buf, 3),
                               version |-> Version_read_from(buf, 5),
                               options |-> read_u32(buf, 9),
                               chunk_size |-> read_u32(buf, 13),
                               number_of_special_evlrs |-> read_i64(buf, 17),
                               offset_to_special_evlrs |-> read_i64(buf, 25),
                               items |-> its.v])

LazVlr_write_to(self) ==
    write_u16(CompressorType_as_u16(self.compressor))
        \o write_u16(self.coder)
        \o Version_write_to(self.version)
        \o write_u32(self.options)
        \o write_u32(self.chunk_size)
        \o write_i64(self.number_of_special_evlrs)
        \o write_i64(self.offset_to_special_evlrs)
        \o write_laz_items_to(self.items)

\* uses_variable_size_chunks as it would be comparing the low half only
LazVlr_uses_variable_size_chunks_low_half(self) == self.chunk_size[1] = U16Max

LazVlr_uses_variable_size_chunks(self) == self.chunk_size = VARIABLE_CHUNK_SIZE

LazVlr_chunk_size(self) == self.chunk_size

LazVlr_items(self) == self.items

\* `.sum::<u16>()`: the sum of the sizes in u16 arithmetic.  An addition that
\* overflows panics in a build with overflow checks and wraps in one without.
RECURSIVE SumSizes(_)
SumSizes(its) ==
    IF its = << >> THEN 0 ELSE its[1].x.size * its[1].n + SumSizes(Tail(its))

\* the outcomes LazVlr::items_size can have, a u64 being a plain natural here
LazVlr_items_size(self) ==
    IF SumSizes(self.items) <= U16Max
    THEN {Ok(SumSizes(self.items))}
    ELSE {Ok(SumSizes(self.items) % U16Mod), Panic("attempt to add with overflow")}

-----------------------------------------------------------------------------
(* LazItemRecordBuilder *)

\* x pushed n times onto v
VecPushN(v, x, n) ==
    IF n = 0 THEN v
    ELSE IF v /= << >> /\ v[Len(v)].x = x
    THEN [v EXCEPT ![Len(v)].n = @ + n]
    ELSE Append(v, [x |-> x, n |-> n])

\* `if num_extra_bytes > 0 { items.push(LazItem::new(extra, version)) }`
WithExtraBytes(its, extra, version, num_extra_bytes) ==
    IF num_extra_bytes > 0 THEN VecPush(its, LazItem_new(extra, version)) ELSE its

\* <PointN as DefaultVersion>::default_version(num_extra_bytes), by format id
DefaultVersion_default_version(point_format_id, num_extra_bytes) ==
    LET legacy(ts) == WithExtraBytes(ts, Byte(num_extra_bytes), 2, num_extra_bytes)
        extended(ts) == WithExtraBytes(ts, Byte14(num_extra_bytes), 3, num_extra_bytes)
        one(t, v) == VecPush(VecNew, LazItem_new(t, v))
    IN  CASE point_format_id = 0 -> legacy(one(Point10, 2))
          [] point_format_id = 1 ->
                legacy(VecPush(one(Point10, 2), LazItem_new(GpsTime, 2)))
          [] point_format_id = 2 ->
                legacy(VecPush(one(Point10, 2), LazItem_new(RGB12, 2)))
          [] point_format_id = 3 ->
                legacy(VecPush(VecPush(one(Point10, 2), LazItem_new(GpsTime, 2)),
                               LazItem_new(RGB12, 2)))
          [] point_format_id = 6 -> extended(one(Point14, 3))
          [] point_format_id = 7 ->
                extended(VecPush(one(Point14, 3), LazItem_new(RGB14, 3)))
          [] point_format_id = 8 ->
                extended(VecPush(one(Point14, 3), LazItem_new(RGBNIR14, 3)))

LazItemRecordBuilder_default_version_of(point_format_id, num_extra_bytes) ==
    DefaultVersion_default_version(point_format_id, num_extra_bytes)

\* default_for_point_format_id as it would be with an arm for format 4
LazItemRecordBuilder_default_for_point_format_id_with_4(point_format_id, num_extra_bytes) ==
    IF point_format_id \in {0, 1, 2, 3, 6, 7, 8}
    THEN Ok(LazItemRecordBuilder_default_version_of(point_format_id, num_extra_bytes))
    ELSE IF point_format_id = 4
    THEN Ok(LazItemRecordBuilder_default_version_of(1, num_extra_bytes))
    ELSE Err(UnsupportedPointFormat(point_format_id))

\* Result<Vec<LazItem>>
LazItemRecordBuilder_default_for_point_format_id(point_format_id, num_extra_bytes) ==
    CASE point_format_id = 0 -> Ok(LazItemRecordBuilder_default_version_of(0, num_extra_bytes))
      [] point_format_id = 1 -> Ok(LazItemRecordBuilder_default_version_of(1, num_extra_bytes))
      [] point_format_id = 2 -> Ok(LazItemRecordBuilder_default_version_of(2, num_extra_bytes))
      [] point_format_id = 3 -> Ok(LazItemRecordBuilder_default_version_of(3, num_extra_bytes))
      [] point_format_id = 6 -> Ok(LazItemRecordBuilder_default_version_of(6, num_extra_bytes))
      [] point_format_id = 7 -> Ok(LazItemRecordBuilder_default_version_of(7, num_extra_bytes))
      [] point_format_id = 8 -> Ok(LazItemRecordBuilder_default_version_of(8, num_extra_bytes))
      [] OTHER -> Err(UnsupportedPointFormat(point_format_id))

LazItemRecordBuilder_new == VecNew

LazItemRecordBuilder_add_item(self, item_type) == VecPush(self, item_type)

\* LazItemRecordBuilder::build as it would be with size and version swapped
RECURSIVE LazItemRecordBuilder_build_swapped(_)
LazItemRecordBuilder_build_swapped(self) ==
    IF self = << >> THEN VecNew
    ELSE LET item_type == self[Len(self)].x
             size == LazItemType_default_version(item_type)
             version == LazItemType_size(item_type)
         IN  VecPushN(LazItemRecordBuilder_build_swapped(SubSeq(self, 1, Len(self) - 1)),
                      [item_type |-> item_type, size |-> size, version |-> version],
                      self[Len(self)].n)

\* `self.items.iter().map(|item_type| LazItem {..}).collect()`
RECURSIVE LazItemRecordBuilder_build(_)
LazItemRecordBuilder_build(self) ==
    IF self = << >> THEN VecNew
    ELSE LET item_type == self[Len(self)].x
             size == LazItemType_size(item_type)
             version == LazItemType_default_version(item_type)
         IN  VecPushN(LazItemRecordBuilder_build(SubSeq(self, 1, Len(self) - 1)),
                      [item_type |-> item_type, size |-> size, version |-> version],
                      self[Len(self)].n)

-----------------------------------------------------------------------------
(* LazVlrBuilder *)

LazVlrBuilder_default ==
    [items |-> VecNew, chunk_size |-> AsU32(DEFAULT_CHUNK_SIZE)]

LazVlrBuilder_new(laz_items) ==
    [LazVlrBuilder_default EXCEPT !.items = laz_items]

\* Result<LazVlrBuilder>
LazVlrBuilder_with_point_format(self, point_format_id, num_extra_bytes) ==
    LET r == LazItemRecordBuilder_default_for_point_format_id(
                 point_format_id, num_extra_bytes)
    IN  IF r.tag = "Err" THEN r ELSE Ok([self EXCEPT !.items = r.v])

LazVlrBuilder_with_laz_items(self, laz_items) == [self EXCEPT !.items = laz_items]

LazVlrBuilder_with_fixed_chunk_size(self, chunk_size) ==
    [self EXCEPT !.chunk_size = chunk_size]

LazVlrBuilder_with_variable_chunk_size(self) ==
    [self EXCEPT !.chunk_size = VARIABLE_CHUNK_SIZE]

\* LazVlrBuilder::build as it would be without `vlr.chunk_size = self.chunk_size`
LazVlrBuilder_build_default_chunk_size(self) == LazVlr_from_laz_items(self.items)

\* the LazVlr, or the panic of LazVlr::from_laz_items
LazVlrBuilder_build(self) ==
    LET v == LazVlr_from_laz_items(self.items)
    IN  IF v.tag = "Panic" THEN v
        ELSE Ok([v.v EXCEPT !.chunk_size = self.chunk_size])

-----------------------------------------------------------------------------
(* The inputs the callers draw from *)

\* most point format id tried, besides u8::MAX
MaxPointFormatId == 10
\* the u8 255
U8Max == 255

PointFormatIds == 0..MaxPointFormatId \cup {U8Max}
NumExtraBytes == {0, 3}

\* the item types add_item is called with
ItemTypes ==
    {Point10, GpsTime, RGB12, Point14, RGB14, RGBNIR14, Byte(40000), Byte14(40000)}

\* the (item type, version) pairs LazItem::new is called with
NewItemTypes == {Point10, Byte14(40000)}
NewItemVersions == 0..5

\* the arguments of with_fixed_chunk_size
ChunkSizes == {AsU32(0), AsU32(60000), U32Max}

\* the first two bytes of an input buffer: the compressor type
CompressorBytes == {<<0, 0>>, <<1, 0>>, <<2, 0>>, <<3, 0>>, <<4, 0>>, <<0, 1>>}

\* bytes 2..31 of an input buffer: coder, version, options, chunk_size,
\* number_of_special_evlrs, offset_to_special_evlrs
HeaderBytes ==
    { <<0, 0>> \o <<2, 2, 0, 0>> \o <<0, 0, 0, 0>> \o <<80, 195, 0, 0>>
          \o <<255, 255, 255, 255, 255, 255, 255, 255>>
          \o <<255, 255, 255, 255, 255, 255, 255, 255>>,
      <<1, 2>> \o <<3, 4, 5, 6>> \o <<7, 8, 9, 10>> \o <<255, 255, 255, 255>>
          \o <<11, 12, 13, 14, 15, 16, 17, 18>>
          \o <<0, 0, 0, 0, 0, 0, 0, 128>>,
      <<0, 0>> \o <<0, 0, 0, 0>> \o <<0, 0, 0, 0>> \o <<0, 0, 0, 0>>
          \o <<0, 0, 0, 0, 0, 0, 0, 0>>
          \o <<0, 0, 0, 0, 0, 0, 0, 0>>,
      <<255, 255>> \o <<255, 0, 0, 255>> \o <<0, 0, 255, 255>> \o <<255, 255, 255, 254>>
          \o <<254, 255, 255, 255, 255, 255, 255, 255>>
          \o <<0, 0, 0, 0, 1, 0, 0, 0>> }

\* the item records of an input buffer: type, size, version
ItemBytes ==
    { <<0, 0>> \o <<64, 156>> \o <<2, 0>>,       \* Byte(40000), version 2
      <<6, 0>> \o <<20, 0>> \o <<2, 0>>,         \* Point10, its size, version 2
      <<7, 0>> \o <<8, 0>> \o <<1, 0>>,          \* GpsTime, its size, version 1
      <<8, 0>> \o <<6, 0>> \o <<0, 0>>,          \* RGB12, its size, version 0
      <<10, 0>> \o <<30, 0>> \o <<3, 0>>,        \* Point14, its size, version 3
      <<11, 0>> \o <<0, 6>> \o <<4, 0>>,         \* RGB14, size 1536, version 4
      <<12, 0>> \o <<8, 0>> \o <<255, 255>>,     \* RGBNIR14, its size, version 65535
      <<14, 0>> \o <<255, 255>> \o <<3, 0>>,     \* Byte14(65535), version 3
      <<6, 0>> \o <<5, 0>> \o <<2, 0>>,          \* Point10, size 5, version 2
      <<1, 0>> \o <<20, 0>> \o <<2, 0>>,         \* code 1
      <<9, 0>> \o <<0, 0>> \o <<2, 0>>,          \* code 9
      <<6, 1>> \o <<20, 0>> \o <<2, 0>> }        \* code 262

RECURSIVE Concat(_)
Concat(ss) == IF ss = << >> THEN << >> ELSE ss[1] \o Concat(Tail(ss))

\* complete headers of n item records
CompleteBuffers(n) ==
    { c \o h \o write_u16(n) \o Concat(its) :
          c \in CompressorBytes, h \in HeaderBytes, its \in [1..n -> ItemBytes] }

\* a buffer cut short, and a buffer announcing more items than it holds
ShortBuffers(n) ==
    { SubSeq(b, 1, Len(b) - 1) : b \in CompleteBuffers(n) }
        \cup { [b EXCEPT ![34] = 1] : b \in CompleteBuffers(n) }

Buffers ==
    UNION { CompleteBuffers(n) : n \in 0..MaxItems }
        \cup UNION { ShortBuffers(n) : n \in 0..1 }

-----------------------------------------------------------------------------
(* The state machine: a caller that either decodes the header it was given *)
(* or builds one, then writes it and inspects it.                          *)

\* hist.chunk: the argument of the last chunk-size setter, if any;
\* hist.req: the last call that asked for or handed over a Vec<LazItem>
NoHist == [chunk |-> None, req |-> None]
ByValue(call, its) == Some([call |-> call, items |-> its])
ByFormat(call, id, n) == Some([call |-> call, id |-> id, n |-> n])

Init ==
    /\ src \in Buffers \cup {<< >>}
    /\ rb = LazItemRecordBuilder_new
    /\ items = None
    /\ builder = None
    /\ hist = NoHist
    /\ vlr = None
    /\ origin = "none"
    /\ dst = None
    /\ back = None
    /\ obs = None

\* the caller builds a header only when it was given none to decode
Building == src = << >> /\ vlr = None

\* LazVlr::read_from(src) / LazVlr::from_buffer(src)
ReadFrom ==
    /\ vlr = None /\ rb = VecNew /\ items = None /\ builder = None
    /\ vlr' = LazVlr_read_from(src)
    /\ origin' = "read_from"
    /\ UNCHANGED <<src, rb, items, builder, hist, dst, back, obs>>

\* LazItemRecordBuilder::add_item, while the vector holds fewer than limit
AddItem(limit) ==
    /\ Building /\ items = None /\ builder = None
    /\ VecLen(rb) < limit
    /\ \E t \in ItemTypes : rb' = LazItemRecordBuilder_add_item(rb, t)
    /\ UNCHANGED <<src, items, builder, hist, vlr, origin, dst, back, obs>>

\* LazItemRecordBuilder::build
RecordBuild ==
    /\ Building /\ items = None
    /\ items' = Ok(LazItemRecordBuilder_build(rb))
    /\ UNCHANGED <<src, rb, builder, hist, vlr, origin, dst, back, obs>>

\* LazItemRecordBuilder::default_for_point_format_id
DefaultForPointFormatId ==
    /\ Building /\ items = None /\ rb = VecNew /\ builder = None
    /\ \E id \in PointFormatIds, n \in NumExtraBytes :
        /\ items' = LazItemRecordBuilder_default_for_point_format_id(id, n)
        /\ hist' = [hist EXCEPT !.req = ByFormat("default_for_point_format_id", id, n)]
    /\ UNCHANGED <<src, rb, builder, vlr, origin, dst, back, obs>>

\* a Vec<LazItem> assembled in the crate from LazItem::new
PushNewItem ==
    /\ Building /\ rb = VecNew /\ builder = None
    /\ items = None \/ (items.tag = "Ok" /\ VecLen(items.v) < MaxItems)
    /\ \E t \in NewItemTypes, v \in NewItemVersions :
           items' = Ok(VecPush(IF items = None THEN VecNew ELSE items.v,
                               LazItem_new(t, v)))
    /\ hist' = [hist EXCEPT !.req = None]
    /\ UNCHANGED <<src, rb, builder, vlr, origin, dst, back, obs>>

\* LazVlr::from_laz_items(items)
FromLazItems ==
    /\ Building /\ builder = None /\ items.tag = "Ok"
    /\ vlr' = LazVlr_from_laz_items(items.v)
    /\ origin' = "from_laz_items"
    /\ hist' = [hist EXCEPT !.req = ByValue("from_laz_items", items.v)]
    /\ items' = None
    /\ UNCHANGED <<src, rb, builder, dst, back, obs>>

\* LazVlrBuilder::default()
BuilderDefault ==
    /\ Building /\ builder = None /\ items = None
    /\ builder' = Ok(LazVlrBuilder_default)
    /\ hist' = NoHist
    /\ UNCHANGED <<src, rb, items, vlr, origin, dst, back, obs>>

\* LazVlrBuilder::new(items)
BuilderNew ==
    /\ Building /\ builder = None /\ items.tag = "Ok"
    /\ builder' = Ok(LazVlrBuilder_new(items.v))
    /\ hist' = [chunk |-> None, req |-> ByValue("new", items.v)]
    /\ items' = None
    /\ UNCHANGED <<src, rb, vlr, origin, dst, back, obs>>

\* LazVlrBuilder::with_point_format
WithPointFormat ==
    /\ Building /\ builder.tag = "Ok"
    /\ \E id \in PointFormatIds, n \in NumExtraBytes :
        /\ builder' = LazVlrBuilder_with_point_format(builder.v, id, n)
        /\ hist' = [hist EXCEPT !.req = ByFormat("with_point_format", id, n)]
    /\ UNCHANGED <<src, rb, items, vlr, origin, dst, back, obs>>

\* LazVlrBuilder::with_laz_items(items)
WithLazItems ==
    /\ Building /\ builder.tag = "Ok" /\ items.tag = "Ok"
    /\ builder' = Ok(LazVlrBuilder_with_laz_items(builder.v, items.v))
    /\ hist' = [hist EXCEPT !.req = ByValue("with_laz_items", items.v)]
    /\ items' = None
    /\ UNCHANGED <<src, rb, vlr, origin, dst, back, obs>>

\* LazVlrBuilder::with_fixed_chunk_size
WithFixedChunkSize ==
    /\ Building /\ builder.tag = "Ok"
    /\ \E cs \in ChunkSizes :
        /\ builder' = Ok(LazVlrBuilder_with_fixed_chunk_size(builder.v, cs))
        /\ hist' = [hist EXCEPT !.chunk = Some(cs)]
    /\ UNCHANGED <<src, rb, items, vlr, origin, dst, back, obs>>

\* LazVlrBuilder::with_variable_chunk_size
WithVariableChunkSize ==
    /\ Building /\ builder.tag = "Ok"
    /\ builder' = Ok(LazVlrBuilder_with_variable_chunk_size(builder.v))
    /\ hist' = [hist EXCEPT !.chunk = Some(U32Max)]
    /\ UNCHANGED <<src, rb, items, vlr, origin, dst, back, obs>>

\* LazVlrBuilder::build
Build ==
    /\ Building /\ builder.tag = "Ok"
    /\ vlr' = LazVlrBuilder_build(builder.v)
    /\ origin' = "build"
    /\ builder' = None
    /\ UNCHANGED <<src, rb, items, hist, dst, back, obs>>

\* LazVlr::write_to
WriteTo ==
    /\ vlr.tag = "Ok" /\ dst = None
    /\ dst' = Some(LazVlr_write_to(vlr.v))
    /\ UNCHANGED <<src, rb, items, builder, hist, vlr, origin, back, obs>>

\* LazVlr::read_from on the bytes write_to wrote
ReadBack ==
    /\ dst.tag = "Some" /\ back = None
    /\ back' = Some(LazVlr_read_from(dst.v))
    /\ UNCHANGED <<src, rb, items, builder, hist, vlr, origin, dst, obs>>

\* LazVlr::chunk_size
ChunkSize ==
    /\ vlr.tag = "Ok"
    /\ obs' = Some([op |-> "chunk_size", out |-> LazVlr_chunk_size(vlr.v)])
    /\ UNCHANGED <<src, rb, items, builder, hist, vlr, origin, dst, back>>

\* LazVlr::uses_variable_size_chunks
UsesVariableSizeChunks ==
    /\ vlr.tag = "Ok"
    /\ obs' = Some([op |-> "uses_variable_size_chunks",
                    out |-> LazVlr_uses_variable_size_chunks(vlr.v)])
    /\ UNCHANGED <<src, rb, items, builder, hist, vlr, origin, dst, back>>

\* LazVlr::items_size
ItemsSize ==
    /\ vlr.tag = "Ok"
    /\ \E r \in LazVlr_items_size(vlr.v) :
           obs' = Some([op |-> "items_size", out |-> r])
    /\ UNCHANGED <<src, rb, items, builder, hist, vlr, origin, dst, back>>

Next ==
    \/ ReadFrom
    \/ AddItem(MaxItems)
    \/ RecordBuild
    \/ DefaultForPointFormatId
    \/ PushNewItem
    \/ FromLazItems
    \/ BuilderDefault
    \/ BuilderNew
    \/ WithPointFormat
    \/ WithLazItems
    \/ WithFixedChunkSize
    \/ WithVariableChunkSize
    \/ Build
    \/ WriteTo
    \/ ReadBack
    \/ ChunkSize
    \/ UsesVariableSizeChunks
    \/ ItemsSize

Spec == Init /\ [][Next]_vars

-----------------------------------------------------------------------------
(* The same caller with a LazItemRecordBuilder that already holds u16::MAX *)
(* items of one type (65535 calls of add_item).  The bytes write_to writes *)
(* are handed to read_from at once and are not kept in the state.          *)

InitWide ==
    /\ src = << >>
    /\ \E t \in {Point10, Point14} : rb = VecPushN(LazItemRecordBuilder_new, t, U16Max)
    /\ items = None
    /\ builder = None
    /\ hist = NoHist
    /\ vlr = None
    /\ origin = "none"
    /\ dst = None
    /\ back = None
    /\ obs = None

\* LazVlr::write_to, then LazVlr::read_from on the bytes written
WriteToThenReadFrom ==
    /\ vlr.tag = "Ok" /\ back = None
    /\ back' = Some(LazVlr_read_from(LazVlr_write_to(vlr.v)))
    /\ UNCHANGED <<src, rb, items, builder, hist, vlr, origin, dst, obs>>

NextWide ==
    \/ AddItem(U16Mod)
    \/ RecordBuild
    \/ BuilderNew
    \/ WithVariableChunkSize
    \/ Build
    \/ WriteToThenReadFrom

SpecWide == InitWide /\ [][NextWide]_vars

-----------------------------------------------------------------------------
(* The wire layout as section 6 of the specification gives it, read off a  *)
(* byte buffer without the decoder.                                        *)

\* the little-endian u16 at byte offset off (0-based) of buf
WireU16(buf, off) == buf[off + 1] + 256 * buf[off + 2]

WireCompressor(buf) == WireU16(buf, 0)
WireNumItems(buf) == WireU16(buf, 32)
WireItemType(buf, k) == WireU16(buf, 34 + 6 * (k - 1))
WireItemSize(buf, k) == WireU16(buf, 36 + 6 * (k - 1))

CompressorCodes == {0, 1, 2, 3}
ItemTypeCodes == {0, 6, 7, 8, 10, 11, 12, 14}

\* the buffer holds a complete header: 34 bytes and its num_items records
CompleteHeader(buf) ==
    /\ Len(buf) >= 34
    /\ Len(buf) = 34 + 6 * WireNumItems(buf)

\* the item records of a complete header whose type code is unknown
UnknownItems(buf) ==
    {k \in 1..WireNumItems(buf) : WireItemType(buf, k) \notin ItemTypeCodes}

SyntacticallyValid(buf) ==
    /\ CompleteHeader(buf)
    /\ WireCompressor(buf) \in CompressorCodes
    /\ UnknownItems(buf) = {}

-----------------------------------------------------------------------------
(* C1 *)

\* C1: for every syntactically valid header buffer (compressor code in 0..3,
\* every item type code known, exactly 34 + 6*num_items bytes) read_from
\* succeeds and write_to of what it returned writes the original bytes.
C1_ReadThenWriteReproducesBytes ==
    (origin = "read_from" /\ SyntacticallyValid(src)) =>
        /\ vlr.tag = "Ok"
        /\ (dst.tag = "Some" => dst.v = src)

\* a valid header of MaxItems items, one of them a Point10 of size 5, was
\* read and written back
C1_Witness ==
    /\ origin = "read_from" /\ SyntacticallyValid(src)
    /\ WireNumItems(src) = MaxItems
    /\ \E k \in 1..MaxItems : WireItemType(src, k) = 6 /\ WireItemSize(src, k) = 5
    /\ dst.tag = "Some"

-----------------------------------------------------------------------------
(* C3 *)

\* C3: on a complete header read_from fails exactly when the compressor
\* code is outside 0..3 or an item record has an unknown type code: with
\* UnknownCompressorType(code) in the first case, whatever the items are,
\* and otherwise with UnknownLazItem(code of the first such item); it
\* returns a LazVlr in every other case and never panics.
C3_ReadFromErrors ==
    (origin = "read_from" /\ CompleteHeader(src)) =>
        IF WireCompressor(src) \notin CompressorCodes
        THEN vlr = Err(UnknownCompressorType(WireCompressor(src)))
        ELSE IF UnknownItems(src) /= {}
        THEN \E k \in UnknownItems(src) :
                /\ \A j \in UnknownItems(src) : k <= j
                /\ vlr = Err(UnknownLazItem(WireItemType(src, k)))
        ELSE vlr.tag = "Ok"

\* a header with a known compressor whose second item is the first unknown
\* one was refused
C3_Witness ==
    /\ origin = "read_from" /\ CompleteHeader(src)
    /\ WireCompressor(src) \in CompressorCodes
    /\ UnknownItems(src) = {2}
    /\ vlr.tag = "Err"

-----------------------------------------------------------------------------
(* C2 *)

\* C2: for every LazVlr LazVlrBuilder::build produced, read_from of the
\* bytes write_to wrote returns a LazVlr equal to it in all fields, with the
\* same items in the same order, whatever the number of items.
C2_WriteThenReadYieldsEqual ==
    (origin = "build" /\ vlr.tag = "Ok" /\ back.tag = "Some") =>
        back.v = Ok(vlr.v)

-----------------------------------------------------------------------------
(* C4 *)

\* the sum of the size fields of the items, in unbounded arithmetic
RECURSIVE SumOfSizes(_, _)
SumOfSizes(its, k) ==
    IF k = 0 THEN 0 ELSE VecAt(its, k).size + SumOfSizes(its, k - 1)

\* C4: for a non-empty item list items_size() returns the mathematical sum
\* of the items' size fields, also when it exceeds 65535.
C4_ItemsSizeIsSum ==
    (/\ obs.tag = "Some" /\ obs.v.op = "items_size"
     /\ vlr.tag = "Ok" /\ VecLen(vlr.v.items) > 0) =>
        obs.v.out = Ok(SumOfSizes(vlr.v.items, VecLen(vlr.v.items)))

-----------------------------------------------------------------------------
(* C5 *)

\* the argument of the last LazVlr::from_laz_items call
FromLazItemsArg == hist.req.v.items

-----------------------------------------------------------------------------
(* C6 *)

SupportedPointFormats == {0, 1, 2, 3, 6, 7, 8}

\* C6: default_for_point_format_id(id, n) returns an item list exactly for
\* id in {0,1,2,3,6,7,8} and otherwise the UnsupportedPointFormat error
\* carrying id; with_point_format passes that error on, and then there is
\* neither a builder nor a LazVlr.
C6_UnsupportedPointFormat ==
    /\ (hist.req.tag = "Some" /\ hist.req.v.call = "default_for_point_format_id") =>
           IF hist.req.v.id \in SupportedPointFormats
           THEN items.tag = "Ok"
           ELSE items = [tag |-> "Err",
                         e |-> [kind |-> "UnsupportedPointFormat", id |-> hist.req.v.id]]
    /\ (hist.req.tag = "Some" /\ hist.req.v.call = "with_point_format") =>
           IF hist.req.v.id \in SupportedPointFormats
           THEN builder.tag = "Ok" \/ origin = "build"
           ELSE /\ builder = [tag |-> "Err",
                              e |-> [kind |-> "UnsupportedPointFormat",
                                     id |-> hist.req.v.id]]
                /\ vlr = None

\* with_point_format was called with the id 255
C6_Witness ==
    /\ hist.req.tag = "Some" /\ hist.req.v.call = "with_point_format"
    /\ hist.req.v.id = 255
    /\ builder.tag = "Err"

-----------------------------------------------------------------------------
(* C7 *)

\* the chunk size the caller asked for: 50000 unless a chunk-size setter ran
AskedChunkSize == IF hist.chunk = None THEN <<50000, 0>> ELSE hist.chunk.v

\* the items of the caller's last item-setting call
AskedItems ==
    IF hist.req = None THEN << >>
    ELSE IF hist.req.v.call = "with_point_format"
    THEN LazItemRecordBuilder_default_for_point_format_id(hist.req.v.id, hist.req.v.n).v
    ELSE hist.req.v.items

\* C7: through any sequence of builder calls the builder holds, and a
\* successful build() returns, the chunk size of the last chunk-size setter
\* (50000 if there was none; 0xFFFFFFFF for with_variable_chunk_size) and the
\* items of the last item-setting call: the item setters leave the chunk
\* size alone and the chunk-size setters leave the items alone.
C7_BuilderChunkSizeAndItems ==
    /\ builder.tag = "Ok" =>
           /\ builder.v.chunk_size = AskedChunkSize
           /\ builder.v.items = AskedItems
    /\ (origin = "build" /\ vlr.tag = "Ok") =>
           /\ LazVlr_chunk_size(vlr.v) = AskedChunkSize
           /\ LazVlr_items(vlr.v) = AskedItems

\* with_variable_chunk_size, then with_point_format, then build
C7_Witness ==
    /\ origin = "build" /\ vlr.tag = "Ok"
    /\ hist.chunk = Some(<<65535, 65535>>)
    /\ hist.req.v.call = "with_point_format"
    /\ LazVlr_chunk_size(vlr.v) = <<65535, 65535>>

-----------------------------------------------------------------------------
(* C8 *)

\* C8: for every LazVlr, decoded or built, uses_variable_size_chunks() is
\* true exactly when chunk_size() is 0xFFFFFFFF.
C8_UsesVariableSizeChunks ==
    /\ vlr.tag = "Ok" =>
           (LazVlr_uses_variable_size_chunks(vlr.v)
                <=> LazVlr_chunk_size(vlr.v) = <<65535, 65535>>)
    /\ (obs.tag = "Some" /\ obs.v.op = "uses_variable_size_chunks") =>
           (obs.v.out <=> vlr.v.chunk_size = <<65535, 65535>>)

\* a decoded header with chunk_size 0xFFFFFFFF answered true
C8_Witness ==
    /\ origin = "read_from" /\ vlr.tag = "Ok"
    /\ obs.tag = "Some" /\ obs.v.op = "uses_variable_size_chunks"
    /\ obs.v.out = TRUE
    /\ WireU16(src, 12) = 65535 /\ WireU16(src, 14) = 65535

-----------------------------------------------------------------------------
(* C9 *)

ExtraBytesKinds == {"Byte", "Byte14"}

\* the LazItem invariant of the specification's data model
ItemInvariant(it) ==
    IF it.item_type.kind \in ExtraBytesKinds
    THEN it.size = it.item_type.size
    ELSE it.size = LazItemType_size(it.item_type)

\* C9 as claimed: every item of every LazVlr, decoded or built, satisfies
\* the LazItem invariant.
C9_Original ==
    vlr.tag = "Ok" => \A it \in VecElems(vlr.v.items) : ItemInvariant(it)

\* C9 as amended: every LazItem the builders produce, and every item of a
\* LazVlr built from them, satisfies the LazItem invariant; an item decoded
\* by read_from has the size field of its record as its size, which is the
\* byte count an extra-bytes variant carries and is not compared with the
\* inherent size of any other variant.
C9_Amended ==
    /\ items.tag = "Ok" => \A it \in VecElems(items.v) : ItemInvariant(it)
    /\ builder.tag = "Ok" => \A it \in VecElems(builder.v.items) : ItemInvariant(it)
    /\ (vlr.tag = "Ok" /\ origin \in {"build", "from_laz_items"}) =>
           \A it \in VecElems(vlr.v.items) : ItemInvariant(it)
    /\ (vlr.tag = "Ok" /\ origin = "read_from") =>
           \A k \in 1..VecLen(vlr.v.items) :
               LET it == VecAt(vlr.v.items, k)
               IN  /\ it.size = WireItemSize(src, k)
                   /\ it.item_type.kind \in ExtraBytesKinds =>
                          it.item_type.size = WireItemSize(src, k)

\* a LazVlr was built from two items, one of them extra bytes
C9_Witness ==
    /\ origin = "build" /\ vlr.tag = "Ok"
    /\ VecLen(vlr.v.items) = 2
    /\ \E it \in VecElems(vlr.v.items) : it.item_type.kind \in ExtraBytesKinds

-----------------------------------------------------------------------------
(* C10 *)

\* C10 as claimed: every LazVlr a constructor produced has at least one item.
C10_Original ==
    vlr.tag = "Ok" => VecLen(vlr.v.items) > 0

\* C10 as amended: every LazVlr from_laz_items or LazVlrBuilder::build
\* produced has at least one item; a LazVlr read_from returned has exactly
\* num_items items, none when the header's num_items field is 0.
C10_Amended ==
    /\ (vlr.tag = "Ok" /\ origin \in {"build", "from_laz_items"}) =>
           VecLen(vlr.v.items) > 0
    /\ (vlr.tag = "Ok" /\ origin = "read_from") =>
           VecLen(vlr.v.items) = WireNumItems(src)

\* read_from returned a LazVlr for a header whose num_items is 0
C10_Witness ==
    /\ origin = "read_from" /\ vlr.tag = "Ok"
    /\ WireNumItems(src) = 0
    /\ VecLen(vlr.v.items) = 0

====
